---- MODULE Spec2Model ----
(***************************************************************************)
(* The worker pipeline of swift-http-import (threads.go): a Scraper, a     *)
(* Checker and a Transfer goroutine connected by two buffered channels of  *)
(* File values, a shared cancellable context, a WaitGroup and the four     *)
(* counters of SharedState that Run logs once the WaitGroup is drained.    *)
(***************************************************************************)
EXTENDS Naturals, Sequences, FiniteSets, TLC

\* capacity of both channels: make(chan File, 10)
QueueDepth == 10

\* bounds of the model
MaxDirs == 2         \* directories the source holds (calls to scraper.Next)
MaxBatch == 1        \* files of an ordinary directory
MaxEarly == 1        \* only the first MaxEarly files of the source may be
                     \* listed with an empty path, be present at the
                     \* destination beforehand, or fail to transfer

MaxReruns == 1       \* the end-to-end scenario runs the program once more
MaxRerunFiles == 2   \* a re-run is followed only for sources of so many files

\* One directory may hold more files than a channel buffers.
BigBatch == QueueDepth + 1
BatchSizes == (0..MaxBatch) \cup {BigBatch}
MaxFiles == BigBatch + MaxBatch

VARIABLES
    ctxErr,              \* state.Context.Err() != nil, i.e. Done() is closed
    signalled,           \* a SIGINT/SIGTERM was received from sigs
    wg,                  \* counter of state.WaitGroup
    DirectoriesScanned,  \* SharedState fields, 0 until a stage submits them
    FilesFound,
    FilesNeedTransfer,
    FilesTransferred,
    runPC,               \* position of Run
    report,              \* the counters Run logged, <<>> before that
    sPC,                 \* position of the scraper goroutine
    srcDone,             \* scraper.Done()
    nDirs,               \* calls of scraper.Next so far
    nFiles,              \* files scraper.Next has returned so far
    pending,             \* rest of the slice the scraper ranges over
    directoriesScanned,  \* locals of the scraper goroutine
    filesFound,
    q1,                  \* buffer of the scraper's out channel
    q1Closed,
    cPC,                 \* position of the checker goroutine
    cFile,               \* its local `file`
    filesNeedTransfer,   \* its local counter
    q2,                  \* buffer of the checker's out channel
    q2Closed,
    tPC,                 \* position of the transfer goroutine
    tFile,               \* its local `file`
    filesTransferred,    \* its local counter
    enq,                 \* history: Files the scraper sent on its out channel
    taken,               \* history: number of Files the checker received
    chk,                 \* history: Files NeedsTransfer was called on
    fwd,                 \* history: Files the checker sent on its out channel
    xfer,                \* history: Files PerformTransfer was called on
    dest,                \* paths whose copy at the destination is up to date
    needed,              \* history: the Files NeedsTransfer returned true for
    succeeded,           \* history: the Files PerformTransfer returned true for
    listing,             \* history: the slices scraper.Next has returned
    dest0,               \* history: dest when the current run started
    runs,                \* history: summaries of the earlier runs
    yPC,                 \* position of YumSource.ListAllFiles
    fetched,             \* history: the documents it has requested
    hrefsByType,         \* its map of the same name
    allFiles,            \* its slice of the same name (the paths)
    yumResult,           \* what it returned: the files and the error
    bPC,                 \* position of main
    jobs,                \* config.Jobs
    creators,            \* position of each goroutine of PrepareTargets
    calls,               \* history: ContainerCreate calls issued, per name
    completed,           \* history: ContainerCreate calls returned, per name
    pwg,                 \* the WaitGroup of PrepareTargets
    nextJob,             \* the job PrepareClients is at
    failed,              \* history: the bootstrap steps that failed
    pgPC,                \* position of postlite.connectToPostgres
    driverName,          \* its parameter of the same name
    pgErr,               \* its variable err ("" is nil)
    pgFirst,             \* history: how the first connection attempt ended
    dbName,              \* its variable of the same name
    db2,                 \* its variable of the same name
    pgOps,               \* history: the calls made on database/sql
    pgResult             \* what it returned

sharedVars == <<ctxErr, signalled, wg, DirectoriesScanned, FilesFound,
                FilesNeedTransfer, FilesTransferred, runPC, report>>
scraperVars == <<sPC, srcDone, nDirs, nFiles, pending,
                 directoriesScanned, filesFound, q1, q1Closed>>
checkerVars == <<cPC, cFile, filesNeedTransfer, q2, q2Closed>>
transferVars == <<tPC, tFile, filesTransferred>>
historyVars == <<enq, taken, chk, fwd, xfer>>
resultVars == <<needed, succeeded>>
rerunVars == <<dest0, runs>>
\* the state of the other parts of the program, which no step of a pipeline
\* run changes
yumVars == <<yPC, fetched, hrefsByType, allFiles, yumResult>>
bootVars == <<bPC, jobs, creators, calls, completed, pwg, nextJob, failed>>
pgVars == <<pgPC, driverName, pgErr, pgFirst, dbName, db2, pgOps, pgResult>>
outsideVars == <<yumVars, bootVars, pgVars>>
vars == <<sharedVars, scraperVars, checkerVars, transferVars, historyVars,
          resultVars, dest, listing, rerunVars, outsideVars>>

\* A File is identified by its Path; the zero value has the empty path.
File(path) == [Path |-> path]
ZeroFile == File("")

\* Paths of the first files the source lists, in discovery order.
PathOf(i) == ToString(i)
EarlyPaths == {PathOf(i) : i \in 1..MaxEarly}

\* The slice one call of scraper.Next returns: n files with fresh paths
\* (numbered in discovery order), the e-th of them (if e > 0) listed with an
\* empty path.
Batch(first, n, e) ==
    [i \in 1..n |-> IF i = e THEN ZeroFile ELSE File(PathOf(first + i))]

\* the empty map[string]string
NoHrefs == [t \in {} |-> ""]

\* the nil *ListEntriesError
NoError == [Location |-> "", Message |-> ""]

\* YumSource.ListAllFiles has not been called.
YumIdle ==
    /\ yPC = "idle"
    /\ fetched = <<>>
    /\ hrefsByType = NoHrefs
    /\ allFiles = <<>>
    /\ yumResult = [files |-> <<>>, err |-> NoError]

\* main is not being followed.
BootIdle ==
    /\ bPC = "idle"
    /\ jobs = <<>>
    /\ creators = <<>>
    /\ calls = <<>>
    /\ completed = <<>>
    /\ pwg = 0
    /\ nextJob = 0
    /\ failed = {}

\* connectToPostgres is not being followed.
PgIdle ==
    /\ pgPC = "idle"
    /\ driverName = ""
    /\ pgErr = ""
    /\ pgFirst = "pending"
    /\ dbName = ""
    /\ db2 = "nil"
    /\ pgOps = <<>>
    /\ pgResult = [db |-> "nil", err |-> ""]

\* The state once Run has started its three goroutines.
PipelineInit ==
    /\ ctxErr = FALSE
    /\ signalled = FALSE
    /\ wg = 3
    /\ DirectoriesScanned = 0
    /\ FilesFound = 0
    /\ FilesNeedTransfer = 0
    /\ FilesTransferred = 0
    /\ runPC = "wait"
    /\ report = <<>>
    /\ sPC = "loop"
    /\ srcDone = FALSE
    /\ nDirs = 0
    /\ nFiles = 0
    /\ pending = <<>>
    /\ directoriesScanned = 0
    /\ filesFound = 0
    /\ q1 = <<>>
    /\ q1Closed = FALSE
    /\ cPC = "select"
    /\ cFile = ZeroFile
    /\ filesNeedTransfer = 0
    /\ q2 = <<>>
    /\ q2Closed = FALSE
    /\ tPC = "select"
    /\ tFile = ZeroFile
    /\ filesTransferred = 0
    /\ enq = <<>>
    /\ taken = 0
    /\ chk = <<>>
    /\ fwd = <<>>
    /\ xfer = <<>>
    /\ dest \in SUBSET EarlyPaths
    /\ listing = <<>>
    /\ needed = <<>>
    /\ succeeded = <<>>
    /\ dest0 = dest
    /\ runs = <<>>

Init == PipelineInit /\ YumIdle /\ BootIdle /\ PgIdle

----------------------------------------------------------------------------
\* The goroutine of Run that waits for a signal and cancels the context.
SignalHandler ==
    /\ runPC # "done"
    /\ ~signalled
    /\ signalled' = TRUE
    /\ ctxErr' = TRUE
    /\ UNCHANGED <<wg, DirectoriesScanned, FilesFound, FilesNeedTransfer,
                   FilesTransferred, runPC, report>>
    /\ UNCHANGED <<scraperVars, checkerVars, transferVars, historyVars, dest>>
    /\ UNCHANGED <<resultVars, listing, rerunVars, outsideVars>>

\* A Wait that returns while one goroutine has not called Done yet.
WaitReturnsEarly(n) == n <= 1

\* state.WaitGroup.Wait() returns once the counter is zero.
WaitReturns(n) == n = 0

RunWait ==
    /\ runPC = "wait"
    /\ WaitReturns(wg)
    /\ runPC' = "report"
    /\ UNCHANGED <<ctxErr, signalled, wg, DirectoriesScanned, FilesFound,
                   FilesNeedTransfer, FilesTransferred, report>>
    /\ UNCHANGED <<scraperVars, checkerVars, transferVars, historyVars, dest>>
    /\ UNCHANGED <<resultVars, listing, rerunVars, outsideVars>>

\* Run logs the counters and returns; the deferred cancelFunc runs.
RunReport ==
    /\ runPC = "report"
    /\ report' = [DirectoriesScanned |-> DirectoriesScanned,
                  FilesFound |-> FilesFound,
                  FilesNeedTransfer |-> FilesNeedTransfer,
                  FilesTransferred |-> FilesTransferred]
    /\ ctxErr' = TRUE
    /\ runPC' = "done"
    /\ UNCHANGED <<signalled, wg, DirectoriesScanned, FilesFound,
                   FilesNeedTransfer, FilesTransferred>>
    /\ UNCHANGED <<scraperVars, checkerVars, transferVars, historyVars, dest>>
    /\ UNCHANGED <<resultVars, listing, rerunVars, outsideVars>>

----------------------------------------------------------------------------
\* A channel that accepts one File more than its buffer holds.
CanSendOneMore(q) == Len(q) <= QueueDepth

\* Whether a send on a channel with this buffer can proceed.
CanSend(q) == Len(q) < QueueDepth

\* A later run meets the source as the run before it left it: the k-th call
\* of scraper.Next returns what it returned then.
Relisted(k, batch, d) ==
    IF runs = <<>>
    THEN TRUE
    ELSE LET before == runs[Len(runs)].listing
         IN  /\ k <= Len(before)
             /\ batch = before[k]
             /\ d <=> k = Len(before)

\* The listing is kept for as long as the source is small enough to be
\* listed again by a later run.
Listed(sofar, total, batch) ==
    IF total <= MaxRerunFiles THEN Append(sofar, batch) ELSE <<>>

\* Head of the scraper's loop: leave on cancellation or when the source is
\* exhausted, otherwise call scraper.Next() and start ranging over its result.
ScraperLoop ==
    /\ sPC = "loop"
    /\ IF ctxErr \/ srcDone
       THEN /\ sPC' = "submit"
            /\ UNCHANGED <<srcDone, nDirs, nFiles, pending,
                           directoriesScanned, filesFound, listing>>
       ELSE \E n \in BatchSizes, e \in 0..MaxEarly, d \in BOOLEAN :
              /\ nFiles + n <= MaxFiles
              /\ e <= n
              /\ e > 0 => nFiles + e <= MaxEarly
              /\ nDirs + 1 >= MaxDirs => d
              /\ Relisted(nDirs + 1, Batch(nFiles, n, e), d)
              /\ listing' = Listed(listing, nFiles + n, Batch(nFiles, n, e))
              /\ pending' = Batch(nFiles, n, e)
              /\ nFiles' = nFiles + n
              /\ nDirs' = nDirs + 1
              /\ srcDone' = d
              /\ IF n = 0
                 THEN /\ directoriesScanned' = directoriesScanned + 1
                      /\ sPC' = "loop"
                      /\ UNCHANGED filesFound
                 ELSE /\ filesFound' = filesFound + 1
                      /\ sPC' = "send"
                      /\ UNCHANGED directoriesScanned
    /\ UNCHANGED <<q1, q1Closed>>
    /\ UNCHANGED <<sharedVars, checkerVars, transferVars, historyVars, dest>>
    /\ UNCHANGED <<resultVars, rerunVars, outsideVars>>

\* `out <- file` of the scraper, then the next iteration of the range loop.
ScraperSend ==
    /\ sPC = "send"
    /\ CanSend(q1)
    /\ q1' = Append(q1, Head(pending))
    /\ enq' = Append(enq, Head(pending))
    /\ pending' = Tail(pending)
    /\ IF Tail(pending) = <<>>
       THEN /\ directoriesScanned' = directoriesScanned + 1
            /\ sPC' = "loop"
            /\ UNCHANGED filesFound
       ELSE /\ filesFound' = filesFound + 1
            /\ sPC' = "send"
            /\ UNCHANGED directoriesScanned
    /\ UNCHANGED <<srcDone, nDirs, nFiles, q1Closed>>
    /\ UNCHANGED <<sharedVars, checkerVars, transferVars>>
    /\ UNCHANGED <<taken, chk, fwd, xfer, dest>>
    /\ UNCHANGED <<resultVars, listing, rerunVars, outsideVars>>

\* A stage that returned without running its deferred close(out).
AfterSubmitSkipClose == "wgdone"

\* What a scraper or checker does once it has submitted its counters: its
\* deferred calls run last-registered first, so close(out) comes first.
AfterSubmit == "close"

ScraperSubmit ==
    /\ sPC = "submit"
    /\ DirectoriesScanned' = directoriesScanned
    /\ FilesFound' = filesFound
    /\ sPC' = AfterSubmit
    /\ UNCHANGED <<ctxErr, signalled, wg, FilesNeedTransfer, FilesTransferred,
                   runPC, report>>
    /\ UNCHANGED <<srcDone, nDirs, nFiles, pending,
                   directoriesScanned, filesFound, q1, q1Closed>>
    /\ UNCHANGED <<checkerVars, transferVars, historyVars, dest>>
    /\ UNCHANGED <<resultVars, listing, rerunVars, outsideVars>>

ScraperClose ==
    /\ sPC = "close"
    /\ q1Closed' = TRUE
    /\ sPC' = "wgdone"
    /\ UNCHANGED <<srcDone, nDirs, nFiles, pending,
                   directoriesScanned, filesFound, q1>>
    /\ UNCHANGED <<sharedVars, checkerVars, transferVars, historyVars, dest>>
    /\ UNCHANGED <<resultVars, listing, rerunVars, outsideVars>>

ScraperWgDone ==
    /\ sPC = "wgdone"
    /\ wg' = wg - 1
    /\ sPC' = "exited"
    /\ UNCHANGED <<ctxErr, signalled, DirectoriesScanned, FilesFound,
                   FilesNeedTransfer, FilesTransferred, runPC, report>>
    /\ UNCHANGED <<srcDone, nDirs, nFiles, pending,
                   directoriesScanned, filesFound, q1, q1Closed>>
    /\ UNCHANGED <<checkerVars, transferVars, historyVars, dest>>
    /\ UNCHANGED <<resultVars, listing, rerunVars, outsideVars>>

Scraper ==
    \/ ScraperLoop
    \/ ScraperSend
    \/ ScraperSubmit
    \/ ScraperClose
    \/ ScraperWgDone

----------------------------------------------------------------------------
\* A receive that yields the newest buffered File instead of the oldest.
RecvNewest(q) == IF q # <<>> THEN q[Len(q)] ELSE [Path |-> ""]

\* A receive that leaves the File it yields in the buffer.
AfterRecvKeep(q) == q

\* The File a receive on a channel yields: the oldest buffered one, or the
\* zero value once the channel is closed and drained.
CanRecv(q, closed) == q # <<>> \/ closed
Recv(q) == IF q # <<>> THEN Head(q) ELSE ZeroFile
AfterRecv(q) == IF q # <<>> THEN Tail(q) ELSE q

\* The select of the checker: either ready case may be chosen.
CheckerSelect ==
    /\ cPC = "select"
    /\ \/ /\ ctxErr
          /\ cPC' = "submit"
          /\ UNCHANGED <<cFile, q1, taken>>
       \/ /\ CanRecv(q1, q1Closed)
          /\ cFile' = Recv(q1)
          /\ q1' = AfterRecv(q1)
          /\ taken' = IF q1 # <<>> THEN taken + 1 ELSE taken
          /\ cPC' = IF Recv(q1).Path = "" THEN "submit" ELSE "check"
    /\ UNCHANGED <<filesNeedTransfer, q2, q2Closed>>
    /\ UNCHANGED <<sPC, srcDone, nDirs, nFiles, pending,
                   directoriesScanned, filesFound, q1Closed>>
    /\ UNCHANGED <<sharedVars, transferVars>>
    /\ UNCHANGED <<enq, chk, fwd, xfer, dest>>
    /\ UNCHANGED <<resultVars, listing, rerunVars, outsideVars>>

\* file.NeedsTransfer(conn): whether the destination lacks an up-to-date copy.
NeedsTransfer(file, d) == file.Path \notin d

CountedAlways(n, yes) == n + 1

\* if file.NeedsTransfer(...) { filesNeedTransfer++ ... }, and likewise
\* if file.PerformTransfer(...) { filesTransferred++ }
Counted(n, yes) == IF yes THEN n + 1 ELSE n

AfterNeedsTransferForwardAll(need) == "send"

\* Only a File in need of transfer is sent on; the loop goes on otherwise.
AfterNeedsTransfer(need) == IF need THEN "send" ELSE "select"

\* The call of file.NeedsTransfer and the counter.
CheckerNeedsTransfer ==
    /\ cPC = "check"
    /\ chk' = Append(chk, cFile)
    /\ needed' = IF NeedsTransfer(cFile, dest) THEN Append(needed, cFile)
                                               ELSE needed
    /\ filesNeedTransfer' = Counted(filesNeedTransfer, NeedsTransfer(cFile, dest))
    /\ cPC' = AfterNeedsTransfer(NeedsTransfer(cFile, dest))
    /\ UNCHANGED <<cFile, q2, q2Closed>>
    /\ UNCHANGED <<sharedVars, scraperVars, transferVars>>
    /\ UNCHANGED <<enq, taken, fwd, xfer, dest, succeeded>>
    /\ UNCHANGED <<listing, rerunVars, outsideVars>>

\* `out <- file` of the checker.
CheckerSend ==
    /\ cPC = "send"
    /\ CanSend(q2)
    /\ q2' = Append(q2, cFile)
    /\ fwd' = Append(fwd, cFile)
    /\ cPC' = "select"
    /\ UNCHANGED <<cFile, filesNeedTransfer, q2Closed>>
    /\ UNCHANGED <<sharedVars, scraperVars, transferVars>>
    /\ UNCHANGED <<enq, taken, chk, xfer, dest>>
    /\ UNCHANGED <<resultVars, listing, rerunVars, outsideVars>>

CheckerSubmit ==
    /\ cPC = "submit"
    /\ FilesNeedTransfer' = filesNeedTransfer
    /\ cPC' = AfterSubmit
    /\ UNCHANGED <<ctxErr, signalled, wg, DirectoriesScanned, FilesFound,
                   FilesTransferred, runPC, report>>
    /\ UNCHANGED <<cFile, filesNeedTransfer, q2, q2Closed>>
    /\ UNCHANGED <<scraperVars, transferVars, historyVars, dest>>
    /\ UNCHANGED <<resultVars, listing, rerunVars, outsideVars>>

CheckerClose ==
    /\ cPC = "close"
    /\ q2Closed' = TRUE
    /\ cPC' = "wgdone"
    /\ UNCHANGED <<cFile, filesNeedTransfer, q2>>
    /\ UNCHANGED <<sharedVars, scraperVars, transferVars, historyVars, dest>>
    /\ UNCHANGED <<resultVars, listing, rerunVars, outsideVars>>

CheckerWgDone ==
    /\ cPC = "wgdone"
    /\ wg' = wg - 1
    /\ cPC' = "exited"
    /\ UNCHANGED <<ctxErr, signalled, DirectoriesScanned, FilesFound,
                   FilesNeedTransfer, FilesTransferred, runPC, report>>
    /\ UNCHANGED <<cFile, filesNeedTransfer, q2, q2Closed>>
    /\ UNCHANGED <<scraperVars, transferVars, historyVars, dest>>
    /\ UNCHANGED <<resultVars, listing, rerunVars, outsideVars>>

Checker ==
    \/ CheckerSelect
    \/ CheckerNeedsTransfer
    \/ CheckerSend
    \/ CheckerSubmit
    \/ CheckerClose
    \/ CheckerWgDone

----------------------------------------------------------------------------
\* The select of the transfer goroutine.
TransferSelect ==
    /\ tPC = "select"
    /\ \/ /\ ctxErr
          /\ tPC' = "submit"
          /\ UNCHANGED <<tFile, q2>>
       \/ /\ CanRecv(q2, q2Closed)
          /\ tFile' = Recv(q2)
          /\ q2' = AfterRecv(q2)
          /\ tPC' = IF Recv(q2).Path = "" THEN "submit" ELSE "perform"
    /\ UNCHANGED filesTransferred
    /\ UNCHANGED <<cPC, cFile, filesNeedTransfer, q2Closed>>
    /\ UNCHANGED <<sharedVars, scraperVars, historyVars, dest>>
    /\ UNCHANGED <<resultVars, listing, rerunVars, outsideVars>>

\* A transfer stage that gives up at the first failed transfer.
AfterPerformStopOnFailure(ok) == IF ok THEN "select" ELSE "submit"

\* Where the transfer stage goes after PerformTransfer has returned: back to
\* its select, whatever the result.
AfterPerform(ok) == "select"

\* file.PerformTransfer(conn): on success the destination holds the file; a
\* failure leaves it as it was. Then the counter.
TransferPerform ==
    /\ tPC = "perform"
    /\ xfer' = Append(xfer, tFile)
    /\ \E ok \in BOOLEAN :
          /\ ~ok => tFile.Path \in EarlyPaths
          /\ dest' = IF ok THEN dest \cup {tFile.Path} ELSE dest
          /\ succeeded' = IF ok THEN Append(succeeded, tFile) ELSE succeeded
          /\ filesTransferred' = Counted(filesTransferred, ok)
          /\ tPC' = AfterPerform(ok)
    /\ UNCHANGED tFile
    /\ UNCHANGED <<sharedVars, scraperVars, checkerVars>>
    /\ UNCHANGED <<enq, taken, chk, fwd, needed>>
    /\ UNCHANGED <<listing, rerunVars, outsideVars>>

TransferSubmit ==
    /\ tPC = "submit"
    /\ FilesTransferred' = filesTransferred
    /\ tPC' = "wgdone"
    /\ UNCHANGED <<ctxErr, signalled, wg, DirectoriesScanned, FilesFound,
                   FilesNeedTransfer, runPC, report>>
    /\ UNCHANGED <<tFile, filesTransferred>>
    /\ UNCHANGED <<scraperVars, checkerVars, historyVars, dest>>
    /\ UNCHANGED <<resultVars, listing, rerunVars, outsideVars>>

TransferWgDone ==
    /\ tPC = "wgdone"
    /\ wg' = wg - 1
    /\ tPC' = "exited"
    /\ UNCHANGED <<ctxErr, signalled, DirectoriesScanned, FilesFound,
                   FilesNeedTransfer, FilesTransferred, runPC, report>>
    /\ UNCHANGED <<tFile, filesTransferred>>
    /\ UNCHANGED <<scraperVars, checkerVars, historyVars, dest>>
    /\ UNCHANGED <<resultVars, listing, rerunVars, outsideVars>>

Transfer ==
    \/ TransferSelect
    \/ TransferPerform
    \/ TransferSubmit
    \/ TransferWgDone

----------------------------------------------------------------------------
Run == RunWait \/ RunReport

Next ==
    \/ SignalHandler
    \/ RunWait
    \/ RunReport
    \/ ScraperLoop
    \/ ScraperSend
    \/ ScraperSubmit
    \/ ScraperClose
    \/ ScraperWgDone
    \/ CheckerSelect
    \/ CheckerNeedsTransfer
    \/ CheckerSend
    \/ CheckerSubmit
    \/ CheckerClose
    \/ CheckerWgDone
    \/ TransferSelect
    \/ TransferPerform
    \/ TransferSubmit
    \/ TransferWgDone

Spec == Init /\ [][Next]_vars

\* bounds of the re-runs

\* The program is started again after a run that was not interrupted: the
\* source is as it was, the destination is as the run left it.
Rerun ==
    /\ runPC = "done"
    /\ ~signalled
    /\ Len(runs) < MaxReruns
    /\ nFiles <= MaxRerunFiles
    /\ runs' = Append(runs, [dest0 |-> dest0, listing |-> listing,
                             attempted |-> xfer, report |-> report])
    /\ dest0' = dest
    /\ ctxErr' = FALSE
    /\ wg' = 3
    /\ DirectoriesScanned' = 0
    /\ FilesFound' = 0
    /\ FilesNeedTransfer' = 0
    /\ FilesTransferred' = 0
    /\ runPC' = "wait"
    /\ report' = <<>>
    /\ sPC' = "loop"
    /\ srcDone' = FALSE
    /\ nDirs' = 0
    /\ nFiles' = 0
    /\ pending' = <<>>
    /\ directoriesScanned' = 0
    /\ filesFound' = 0
    /\ q1' = <<>>
    /\ q1Closed' = FALSE
    /\ cPC' = "select"
    /\ cFile' = ZeroFile
    /\ filesNeedTransfer' = 0
    /\ q2' = <<>>
    /\ q2Closed' = FALSE
    /\ tPC' = "select"
    /\ tFile' = ZeroFile
    /\ filesTransferred' = 0
    /\ enq' = <<>>
    /\ taken' = 0
    /\ chk' = <<>>
    /\ fwd' = <<>>
    /\ xfer' = <<>>
    /\ needed' = <<>>
    /\ succeeded' = <<>>
    /\ listing' = <<>>
    /\ UNCHANGED <<signalled, dest, outsideVars>>

RerunNext == Next \/ Rerun

RerunSpec == Init /\ [][RerunNext]_vars

\* Every goroutine that can take a step eventually takes one; a signal may
\* or may not arrive.
FairSpec ==
    /\ Spec
    /\ WF_vars(Scraper)
    /\ WF_vars(Checker)
    /\ WF_vars(Transfer)
    /\ WF_vars(Run)

----------------------------------------------------------------------------
\* YumSource.ListAllFiles (pkg/objects/yum.go).

pipelineVars ==
    <<sharedVars, scraperVars, checkerVars, transferVars, historyVars,
      resultVars, dest, listing, rerunVars>>

\* bounds of the repository metadata
MaxEntries == 2      \* <data> entries of a repomd.xml
MaxPackages == 2     \* <package> entries of a primary.xml
MaxDeltas == 2       \* <newpackage> entries of a prestodelta.xml

SeqsUpTo(S, n) == UNION {[1..k -> S] : k \in 0..n}

RepomdPath == "repodata/repomd.xml"

EntryTypes == {"primary", "prestodelta", "other"}
DataHrefs == {"repodata/primary.xml.gz", "repodata/prestodelta.xml.gz"}
PackageHrefs == {"pkg-1.0.rpm", "pkg-2.0.rpm"}
DeltaFilenames == {"pkg-1.0_2.0.drpm", "pkg-2.0_3.0.drpm"}

\* What xml.Unmarshal finds in a well-formed document: the <data> entries,
\* the <package> locations and the <newpackage> delta filenames.  The
\* target struct decides which of them the caller reads.
RepomdDocs ==
    {[data |-> d, packages |-> <<>>, deltas |-> <<>>] :
        d \in SeqsUpTo([Type : EntryTypes, Href : DataHrefs], MaxEntries)}

PrimaryDocs ==
    {[data |-> <<>>, packages |-> p, deltas |-> d] :
        p \in SeqsUpTo(PackageHrefs, MaxPackages),
        d \in {<<>>, <<"pkg-1.0_2.0.drpm">>}}

PrestodeltaDocs ==
    {[data |-> <<>>, packages |-> <<>>, deltas |-> d] :
        d \in SeqsUpTo(DeltaFilenames, MaxDeltas)}

EmptyDoc == [data |-> <<>>, packages |-> <<>>, deltas |-> <<>>]

\* A response body is known by its first three bytes, by what an XML parser
\* makes of the bytes as they are (<<>>: not well-formed) and by what a
\* GZip reader makes of them (<<>>: no valid archive).
GzipMagic == <<31, 139, 8>>
AlmostGzipMagic == <<31, 139, 0>>
TextStart == <<60, 63, 120>>

TextBody(x) == [head |-> TextStart, xml |-> x, gz |-> <<>>]
GzipBody(g) == [head |-> GzipMagic, xml |-> <<>>, gz |-> g]
AlmostGzipBody == [head |-> AlmostGzipMagic, xml |-> <<>>, gz |-> <<>>]

Bodies(docs) ==
    {TextBody(<<d>>) : d \in docs}
        \cup {GzipBody(<<TextBody(<<d>>)>>) : d \in docs}
        \cup {TextBody(<<>>), AlmostGzipBody, GzipBody(<<>>),
              GzipBody(<<TextBody(<<>>)>>)}

\* What the server does with one GET: the request cannot be built, the
\* round trip fails, the body cannot be read to its end, or a body arrives.
Responses(docs) ==
    {[failure |-> f, body |-> TextBody(<<>>)] : f \in {"request", "do", "read"}}
        \cup {[failure |-> "", body |-> b] : b \in Bodies(docs)}

BaseURL == "http://mirror/"

URLOf(path) == BaseURL \o path

ListEntriesErrorNoLocation(location, message) ==
    [Location |-> "", Message |-> message]

ListEntriesError(location, message) ==
    [Location |-> location, Message |-> message]

getFileContents(path, resp) ==
    LET uri == URLOf(path)
    IN  IF resp.failure # ""
        THEN [contents |-> TextBody(<<>>), uri |-> uri,
              e |-> ListEntriesError(uri, "GET failed")]
        ELSE [contents |-> resp.body, uri |-> uri, e |-> NoError]

HasGzipMagicShort(buf) == \A i \in 1..2 : buf.head[i] = GzipMagic[i]

\* bytes.HasPrefix(buf, []byte{0x1f, 0x8b, 0x08})
HasGzipMagic(buf) == \A i \in 1..Len(GzipMagic) : buf.head[i] = GzipMagic[i]

xmlUnmarshal(uri, buf, inflated) ==
    IF buf.xml = <<>>
    THEN [uri |-> uri, data |-> EmptyDoc, inflated |-> inflated,
          e |-> ListEntriesError(uri, "error while parsing XML")]
    ELSE [uri |-> uri, data |-> buf.xml[1], inflated |-> inflated,
          e |-> NoError]

downloadAndParseXML(path, resp) ==
    LET got == getFileContents(path, resp)
    IN  IF got.e # NoError
        THEN [uri |-> got.uri, data |-> EmptyDoc, inflated |-> FALSE,
              e |-> got.e]
        ELSE IF HasGzipMagic(got.contents)
        THEN IF got.contents.gz = <<>>
             THEN [uri |-> got.uri, data |-> EmptyDoc, inflated |-> FALSE,
                   e |-> ListEntriesError(got.uri,
                            "error while decompressing GZip archive")]
             ELSE xmlUnmarshal(got.uri, got.contents.gz[1], TRUE)
        ELSE xmlUnmarshal(got.uri, got.contents, FALSE)

\* The record kept of one call of downloadAndParseXML.
Fetched(path, resp, r) ==
    [path |-> path, uri |-> r.uri, resp |-> resp, inflated |-> r.inflated,
     e |-> r.e]

HrefsOf(entries) == [i \in 1..Len(entries) |-> entries[i].Href]

NoteEntryKeepFirst(hrefs, entry) ==
    [t \in DOMAIN hrefs \cup {entry.Type} |->
        IF t \in DOMAIN hrefs THEN hrefs[t] ELSE entry.Href]

\* hrefsByType[entry.Type] = entry.Location.Href
NoteEntry(hrefs, entry) ==
    [t \in DOMAIN hrefs \cup {entry.Type} |->
        IF t = entry.Type THEN entry.Href ELSE hrefs[t]]

\* the map the loop over repomd.Entries builds: a later entry of a type
\* overwrites an earlier one
RECURSIVE hrefsByTypeOf(_)
hrefsByTypeOf(entries) ==
    IF entries = <<>>
    THEN NoHrefs
    ELSE LET n == Len(entries)
         IN  NoteEntry(hrefsByTypeOf(SubSeq(entries, 1, n - 1)), entries[n])

RECURSIVE AppendNewPaths(_, _)
AppendNewPaths(files, paths) ==
    IF paths = <<>>
    THEN files
    ELSE AppendNewPaths(
            IF \E i \in 1..Len(files) : files[i] = Head(paths)
            THEN files
            ELSE Append(files, Head(paths)),
            Tail(paths))

\* allFiles = append(allFiles, FileSpec{Path: ...}) for each path in turn
AppendPaths(files, paths) == files \o paths

MissingPrimaryErrorElsewhere(repomdURL) ==
    ListEntriesError(BaseURL, "cannot find link to primary.xml.gz in repomd.xml")

MissingPrimaryError(repomdURL) ==
    ListEntriesError(repomdURL, "cannot find link to primary.xml.gz in repomd.xml")

PackageAndDeltaPaths(doc) == doc.packages \o doc.deltas

\* the Location.Href of every entry of primary.Packages
PackagePaths(doc) == doc.packages

\* the Delta.Href of every entry of prestodelta.Packages
DeltaPaths(doc) == doc.deltas

lerrIgnored(e) == FALSE

\* if lerr != nil { return nil, lerr }
lerrSet(e) == e # NoError

YumReturn(files, e) ==
    /\ yumResult' = [files |-> files, err |-> e]
    /\ yPC' = "returned"

YumInit ==
    /\ PipelineInit
    /\ dest = {}
    /\ yPC = "repomd"
    /\ fetched = <<>>
    /\ hrefsByType = NoHrefs
    /\ allFiles = <<>>
    /\ yumResult = [files |-> <<>>, err |-> NoError]
    /\ BootIdle
    /\ PgIdle

YumRepomd ==
    /\ yPC = "repomd"
    /\ \E resp \in Responses(RepomdDocs) :
          LET r == downloadAndParseXML(RepomdPath, resp)
              files == AppendPaths(<<RepomdPath>>, HrefsOf(r.data.data))
              hrefs == hrefsByTypeOf(r.data.data)
          IN  /\ fetched' = Append(fetched, Fetched(RepomdPath, resp, r))
              /\ IF lerrSet(r.e)
                 THEN /\ YumReturn(<<>>, r.e)
                      /\ UNCHANGED <<hrefsByType, allFiles>>
                 ELSE /\ allFiles' = files
                      /\ hrefsByType' = hrefs
                      /\ IF "primary" \notin DOMAIN hrefs
                         THEN YumReturn(<<>>, MissingPrimaryError(r.uri))
                         ELSE /\ yPC' = "primary"
                              /\ UNCHANGED yumResult
    /\ UNCHANGED <<pipelineVars, bootVars, pgVars>>

YumPrimary ==
    /\ yPC = "primary"
    /\ \E resp \in Responses(PrimaryDocs) :
          LET href == hrefsByType["primary"]
              r == downloadAndParseXML(href, resp)
              files == AppendPaths(allFiles, PackagePaths(r.data))
          IN  /\ fetched' = Append(fetched, Fetched(href, resp, r))
              /\ IF lerrSet(r.e)
                 THEN /\ YumReturn(<<>>, r.e)
                      /\ UNCHANGED allFiles
                 ELSE /\ allFiles' = files
                      /\ IF "prestodelta" \in DOMAIN hrefsByType
                         THEN /\ yPC' = "prestodelta"
                              /\ UNCHANGED yumResult
                         ELSE YumReturn(files, NoError)
    /\ UNCHANGED hrefsByType
    /\ UNCHANGED <<pipelineVars, bootVars, pgVars>>

YumPrestodelta ==
    /\ yPC = "prestodelta"
    /\ \E resp \in Responses(PrestodeltaDocs) :
          LET href == hrefsByType["prestodelta"]
              r == downloadAndParseXML(href, resp)
              files == AppendPaths(allFiles, DeltaPaths(r.data))
          IN  /\ fetched' = Append(fetched, Fetched(href, resp, r))
              /\ IF lerrSet(r.e)
                 THEN /\ YumReturn(<<>>, r.e)
                      /\ UNCHANGED allFiles
                 ELSE /\ allFiles' = files
                      /\ YumReturn(files, NoError)
    /\ UNCHANGED hrefsByType
    /\ UNCHANGED <<pipelineVars, bootVars, pgVars>>

YumNext == YumRepomd \/ YumPrimary \/ YumPrestodelta

YumSpec == YumInit /\ [][YumNext]_vars

----------------------------------------------------------------------------
\* The bootstrap of main: Authenticate, PrepareTargets, PrepareClients, Run.

MaxJobs == 2         \* jobs of the configuration

ContainerNames == {"c1", "c2"}

\* A job, as far as the bootstrap reads it: its target container and
\* whether it names a client certificate and a server CA file.
Jobs ==
    [TargetContainer : ContainerNames,
     ClientCertificatePath : BOOLEAN,
     ServerCAPath : BOOLEAN]

BootInit ==
    /\ PipelineInit
    /\ dest = {}
    /\ YumIdle
    /\ PgIdle
    /\ bPC = "authenticate"
    /\ jobs \in UNION {[1..n -> Jobs] : n \in 1..MaxJobs}
    /\ creators = [c \in ContainerNames |-> "none"]
    /\ calls = [c \in ContainerNames |-> 0]
    /\ completed = [c \in ContainerNames |-> 0]
    /\ pwg = 0
    /\ nextJob = 1
    /\ failed = {}

\* the process is running (Log(LogFatal, ...) has not ended it)
Alive == bPC \notin {"idle", "exited"}

AuthFatalNever(ok) == FALSE

\* if err != nil { Log(LogFatal, err.Error()) }
AuthFatal(ok) == ~ok

BootAuthenticate ==
    /\ bPC = "authenticate"
    /\ \E ok \in BOOLEAN :
          /\ failed' = IF ok THEN failed ELSE failed \cup {"authentication"}
          /\ bPC' = IF AuthFatal(ok) THEN "exited" ELSE "targets"
    /\ UNCHANGED <<jobs, creators, calls, completed, pwg, nextJob>>
    /\ UNCHANGED <<pipelineVars, yumVars, pgVars>>

\* the keys of the map targetContainers
TargetContainers(js) == {js[i].TargetContainer : i \in 1..Len(js)}

\* PrepareTargets up to its wg.Wait(): one goroutine per distinct name.
BootPrepareTargets ==
    /\ bPC = "targets"
    /\ pwg' = Cardinality(TargetContainers(jobs))
    /\ creators' = [c \in ContainerNames |->
                       IF c \in TargetContainers(jobs) THEN "start" ELSE "none"]
    /\ bPC' = "wait"
    /\ UNCHANGED <<jobs, calls, completed, nextJob, failed>>
    /\ UNCHANGED <<pipelineVars, yumVars, pgVars>>

\* a creator goroutine issues conn.ContainerCreate(containerName, nil)
BootCreateCall(c) ==
    /\ Alive
    /\ creators[c] = "start"
    /\ calls' = [calls EXCEPT ![c] = @ + 1]
    /\ creators' = [creators EXCEPT ![c] = "called"]
    /\ UNCHANGED <<bPC, jobs, completed, pwg, nextJob, failed>>
    /\ UNCHANGED <<pipelineVars, yumVars, pgVars>>

\* the call returns, with or without an error
BootCreateReturn(c) ==
    /\ Alive
    /\ creators[c] = "called"
    /\ completed' = [completed EXCEPT ![c] = @ + 1]
    /\ \E ok \in BOOLEAN :
          /\ failed' = IF ok THEN failed ELSE failed \cup {"container"}
          /\ creators' = [creators EXCEPT ![c] = IF ok THEN "created" ELSE "error"]
    /\ UNCHANGED <<bPC, jobs, calls, pwg, nextJob>>
    /\ UNCHANGED <<pipelineVars, yumVars, pgVars>>

\* Log(LogFatal, "could not create target container ...")
BootCreateFatal(c) ==
    /\ Alive
    /\ creators[c] = "error"
    /\ bPC' = "exited"
    /\ UNCHANGED <<jobs, creators, calls, completed, pwg, nextJob, failed>>
    /\ UNCHANGED <<pipelineVars, yumVars, pgVars>>

\* wg.Done()
BootCreateDone(c) ==
    /\ Alive
    /\ creators[c] = "created"
    /\ pwg' = pwg - 1
    /\ creators' = [creators EXCEPT ![c] = "done"]
    /\ UNCHANGED <<bPC, jobs, calls, completed, nextJob, failed>>
    /\ UNCHANGED <<pipelineVars, yumVars, pgVars>>

TargetsWaitReturnsEarly(n) == n <= 1

\* wg.Wait() of PrepareTargets returns once the counter is zero.
TargetsWaitReturns(n) == n = 0

BootTargetsWait ==
    /\ bPC = "wait"
    /\ TargetsWaitReturns(pwg)
    /\ bPC' = "clients"
    /\ UNCHANGED <<jobs, creators, calls, completed, pwg, nextJob, failed>>
    /\ UNCHANGED <<pipelineVars, yumVars, pgVars>>

\* One round of the loop of PrepareClients: the certificate and the CA file
\* of the job are loaded if the job names them.
BootPrepareClient ==
    /\ bPC = "clients"
    /\ nextJob <= Len(jobs)
    /\ \E certOk, caOk \in BOOLEAN :
          /\ ~jobs[nextJob].ClientCertificatePath => certOk
          /\ (~jobs[nextJob].ServerCAPath \/ ~certOk) => caOk
          /\ failed' = failed
                \cup (IF certOk THEN {} ELSE {"client certificate"})
                \cup (IF caOk THEN {} ELSE {"server CA"})
          /\ bPC' = IF certOk /\ caOk THEN "clients" ELSE "exited"
          /\ nextJob' = IF certOk /\ caOk THEN nextJob + 1 ELSE nextJob
    /\ UNCHANGED <<jobs, creators, calls, completed, pwg>>
    /\ UNCHANGED <<pipelineVars, yumVars, pgVars>>

\* PrepareClients returns and main calls Run.
BootRun ==
    /\ bPC = "clients"
    /\ nextJob > Len(jobs)
    /\ bPC' = "run"
    /\ UNCHANGED <<jobs, creators, calls, completed, pwg, nextJob, failed>>
    /\ UNCHANGED <<pipelineVars, yumVars, pgVars>>

BootNext ==
    \/ BootAuthenticate
    \/ BootPrepareTargets
    \/ \E c \in ContainerNames : BootCreateCall(c)
    \/ \E c \in ContainerNames : BootCreateReturn(c)
    \/ \E c \in ContainerNames : BootCreateFatal(c)
    \/ \E c \in ContainerNames : BootCreateDone(c)
    \/ BootTargetsWait
    \/ BootPrepareClient
    \/ BootRun

BootSpec == BootInit /\ [][BootNext]_vars

----------------------------------------------------------------------------
\* postlite.connectToPostgres.

DbNames == {"limes", "keppel"}

DbNotExistMsg(name) == "pq: database \"" \o name \o "\" does not exist"

\* The errors the driver may report: nil, the missing database, and errors
\* the expression dbNotExistErrRx must not match.
PgErrors ==
    {"", "pq: password authentication failed", DbNotExistMsg(""),
     "sql: unknown driver \"sqlproxy\" (forgotten import?)"}
        \cup {DbNotExistMsg(n) : n \in DbNames}
        \cup {"FATAL: " \o DbNotExistMsg(n) : n \in DbNames}

\* dbNotExistErrRx.FindStringSubmatch: the whole text and the name between
\* the quotes, of at least one character; nil without a match.
FindStringSubmatch(text) ==
    LET names == {n \in DbNames : text = DbNotExistMsg(n)}
    IN  IF names = {}
        THEN <<>>
        ELSE <<text, CHOOSE n \in names : TRUE>>

PgOp(op, conn, arg, e) == [op |-> op, conn |-> conn, arg |-> arg, err |-> e]

PgReturn(db, e) ==
    /\ pgResult' = [db |-> db, err |-> e]
    /\ pgPC' = "returned"

PgInit ==
    /\ PipelineInit
    /\ dest = {}
    /\ YumIdle
    /\ BootIdle
    /\ pgPC = "open"
    /\ driverName \in {"", "sqlproxy"}
    /\ pgErr = ""
    /\ pgFirst = "pending"
    /\ dbName = ""
    /\ db2 = "nil"
    /\ pgOps = <<>>
    /\ pgResult = [db |-> "nil", err |-> ""]

\* db, err := sql.Open(driverName, url.String())
PgOpen ==
    /\ pgPC = "open"
    /\ \E e \in PgErrors :
          /\ pgOps' = Append(pgOps,
                PgOp("open", "url",
                     IF driverName = "" THEN "postgres" ELSE driverName, e))
          /\ pgErr' = e
          /\ pgFirst' = IF e = "" THEN pgFirst ELSE e
          /\ pgPC' = IF e = "" THEN "select" ELSE "match"
    /\ UNCHANGED <<driverName, dbName, db2, pgResult>>
    /\ UNCHANGED <<pipelineVars, yumVars, bootVars>>

\* _, err = db.Exec("SELECT 1")
PgSelect ==
    /\ pgPC = "select"
    /\ \E e \in PgErrors :
          /\ pgOps' = Append(pgOps, PgOp("exec", "url", "SELECT 1", e))
          /\ pgErr' = e
          /\ pgFirst' = IF e = "" THEN "ok" ELSE e
          /\ pgPC' = IF e = "" THEN "instance" ELSE "match"
    /\ UNCHANGED <<driverName, dbName, db2, pgResult>>
    /\ UNCHANGED <<pipelineVars, yumVars, bootVars>>

\* dbd, err := postgres.WithInstance(db, ...); return db, dbd, err
PgInstance ==
    /\ pgPC = "instance"
    /\ \E e \in {"", "pq: password authentication failed"} :
          /\ pgErr' = e
          /\ PgReturn("url", e)
    /\ UNCHANGED <<driverName, pgFirst, dbName, db2, pgOps>>
    /\ UNCHANGED <<pipelineVars, yumVars, bootVars>>

\* match := dbNotExistErrRx.FindStringSubmatch(err.Error())
PgMatch ==
    /\ pgPC = "match"
    /\ LET match == FindStringSubmatch(pgErr)
       IN  IF match = <<>>
           THEN /\ PgReturn("nil", pgErr)
                /\ UNCHANGED dbName
           ELSE /\ dbName' = match[2]
                /\ pgPC' = "open2"
                /\ UNCHANGED pgResult
    /\ UNCHANGED <<driverName, pgErr, pgFirst, db2, pgOps>>
    /\ UNCHANGED <<pipelineVars, yumVars, bootVars>>

\* db2, err := sql.Open("postgres", urlWithoutDB.String())
PgOpen2 ==
    /\ pgPC = "open2"
    /\ \E e \in {"", "pq: password authentication failed"} :
          /\ pgOps' = Append(pgOps, PgOp("open", "urlWithoutDB", "postgres", e))
          /\ pgErr' = e
          /\ db2' = IF e = "" THEN "open" ELSE "nil"
          /\ pgPC' = IF e = "" THEN "create" ELSE "close2"
    /\ UNCHANGED <<driverName, pgFirst, dbName, pgResult>>
    /\ UNCHANGED <<pipelineVars, yumVars, bootVars>>

\* _, err = db2.Exec("CREATE DATABASE " + dbName)
PgCreate ==
    /\ pgPC = "create"
    /\ \E e \in {"", "pq: password authentication failed"} :
          /\ pgOps' = Append(pgOps,
                PgOp("exec", "urlWithoutDB", "CREATE DATABASE " \o dbName, e))
          /\ pgErr' = e
    /\ pgPC' = "close2"
    /\ UNCHANGED <<driverName, pgFirst, dbName, db2, pgResult>>
    /\ UNCHANGED <<pipelineVars, yumVars, bootVars>>

\* db2.Close() on the nil *sql.DB that a failed sql.Open returned
\* dereferences nil: the goroutine panics.
Db2ClosePanics(conn) == conn = "nil"

\* if err == nil { err = db2.Close() } else { db2.Close() }
\* if err != nil { return nil, nil, err }
PgClose2 ==
    /\ pgPC = "close2"
    /\ IF pgErr = ""
       THEN \E e \in {"", "pq: password authentication failed"} :
               /\ pgOps' = Append(pgOps, PgOp("close", "urlWithoutDB", "", e))
               /\ db2' = "closed"
               /\ pgErr' = e
               /\ IF e = ""
                  THEN pgPC' = "open3" /\ UNCHANGED pgResult
                  ELSE PgReturn("nil", e)
       ELSE IF Db2ClosePanics(db2)
       THEN /\ pgPC' = "panicked"
            /\ UNCHANGED <<pgOps, db2, pgErr, pgResult>>
       ELSE /\ pgOps' = Append(pgOps, PgOp("close", "urlWithoutDB", "", ""))
            /\ db2' = IF db2 = "nil" THEN "nil" ELSE "closed"
            /\ PgReturn("nil", pgErr)
            /\ UNCHANGED pgErr
    /\ UNCHANGED <<driverName, pgFirst, dbName>>
    /\ UNCHANGED <<pipelineVars, yumVars, bootVars>>

\* db, err = sql.Open("postgres", url.String())
PgOpen3 ==
    /\ pgPC = "open3"
    /\ \E e \in {"", "pq: password authentication failed"} :
          /\ pgOps' = Append(pgOps, PgOp("open", "url", "postgres", e))
          /\ pgErr' = e
          /\ IF e = ""
             THEN pgPC' = "instance3" /\ UNCHANGED pgResult
             ELSE PgReturn("nil", e)
    /\ UNCHANGED <<driverName, pgFirst, dbName, db2>>
    /\ UNCHANGED <<pipelineVars, yumVars, bootVars>>

\* dbd, err := postgres.WithInstance(db, ...); return db, dbd, err
PgInstance3 ==
    /\ pgPC = "instance3"
    /\ \E e \in {"", "pq: password authentication failed"} :
          /\ pgErr' = e
          /\ PgReturn("url", e)
    /\ UNCHANGED <<driverName, pgFirst, dbName, db2, pgOps>>
    /\ UNCHANGED <<pipelineVars, yumVars, bootVars>>

PgNext ==
    \/ PgOpen
    \/ PgSelect
    \/ PgInstance
    \/ PgMatch
    \/ PgOpen2
    \/ PgCreate
    \/ PgClose2
    \/ PgOpen3
    \/ PgInstance3

PgSpec == PgInit /\ [][PgNext]_vars

----------------------------------------------------------------------------
\* Properties of the pipeline.

IsPrefix(s, t) ==
    /\ Len(s) <= Len(t)
    /\ \A i \in 1..Len(s) : s[i] = t[i]

NoDuplicates(s) == \A i, j \in 1..Len(s) : s[i] = s[j] => i = j

Exiting(pc) == pc \in {"submit", "close", "wgdone", "exited"}

AllExited == sPC = "exited" /\ cPC = "exited" /\ tPC = "exited"

\* C1: once the cancellation signal has fired, all three stages eventually
\* exit and WaitGroup.Wait returns in Run.
C1_CancelledRunReturns == signalled ~> (AllExited /\ runPC # "wait")

\* C2: every blocking point is a cancellation point: once the context is
\* cancelled, a stage at a channel send or at its select can take its next
\* step without any step of another stage.
C2_BlockingPointsAreCancellationPoints ==
    ctxErr =>
        /\ sPC = "send" => ENABLED Scraper
        /\ cPC \in {"select", "send"} => ENABLED Checker
        /\ tPC = "select" => ENABLED Transfer

\* C3: a run in which no signal arrives reaches its terminal state: all
\* three stages exit and Run returns.
C3_UncancelledRunTerminates ==
    ([]~signalled) => <>(AllExited /\ runPC = "done")

\* C4: once the context is cancelled, the checker and the transfer stage
\* receive no further File and the scraper sends none.
C4_NoNewItemAfterCancel ==
    [][ctxErr => /\ taken' = taken
                 /\ Len(q2') >= Len(q2)
                 /\ enq' = enq]_vars

\* C5: a File with an empty path is never sent on a queue and never handed
\* to NeedsTransfer or PerformTransfer.
C5_EmptyPathNeverWorkItem ==
    /\ \A i \in 1..Len(enq) : enq[i].Path # ""
    /\ \A i \in 1..Len(chk) : chk[i].Path # ""
    /\ \A i \in 1..Len(fwd) : fwd[i].Path # ""
    /\ \A i \in 1..Len(xfer) : xfer[i].Path # ""

\* C6: the checker leaves its loop only when the context is cancelled or
\* when the scraper has closed the queue and the checker has received every
\* File the scraper sent.
C6_CheckerExitsOnlyWhenDrainedOrCancelled ==
    Exiting(cPC) => ctxErr \/ (q1Closed /\ taken = Len(enq))

\* C7: each SharedState counter is written only by the submit step of its
\* owning stage, and once Wait has returned in Run all three stages have
\* exited and the counters hold their final values, which Run reports.
C7_CountersReadAfterJoin ==
    /\ [](runPC # "wait" =>
            /\ AllExited
            /\ DirectoriesScanned = directoriesScanned
            /\ FilesFound = filesFound
            /\ FilesNeedTransfer = filesNeedTransfer
            /\ FilesTransferred = filesTransferred)
    /\ [](runPC = "done" =>
            report = [DirectoriesScanned |-> directoriesScanned,
                      FilesFound |-> filesFound,
                      FilesNeedTransfer |-> filesNeedTransfer,
                      FilesTransferred |-> filesTransferred])
    /\ [][/\ (DirectoriesScanned' # DirectoriesScanned
                \/ FilesFound' # FilesFound) => sPC = "submit"
          /\ FilesNeedTransfer' # FilesNeedTransfer => cPC = "submit"
          /\ FilesTransferred' # FilesTransferred => tPC = "submit"]_vars

C7_Witness ==
    /\ runPC = "done"
    /\ report.DirectoriesScanned = 2
    /\ report.FilesFound = 2
    /\ report.FilesNeedTransfer = 2
    /\ report.FilesTransferred = 1

\* C8: NeedsTransfer is called on the Files in the order the scraper sent
\* them, and PerformTransfer in the order the checker forwarded them.
C8_FifoOrder == IsPrefix(chk, enq) /\ IsPrefix(xfer, fwd)

C8_Witness ==
    /\ Len(chk) >= 3
    /\ Len(xfer) >= 2
    /\ Len(fwd) < Len(chk)
    /\ Len(enq) > Len(chk)

\* C9: the scraper has never sent more than QueueDepth Files beyond those
\* the checker has received.
C9_Backpressure == Len(enq) <= taken + QueueDepth

C9_Witness == Len(enq) = taken + QueueDepth /\ sPC = "send" /\ taken > 0

\* C10: no File is handed to NeedsTransfer twice and none to
\* PerformTransfer twice, also after a failed transfer.
C10_AtMostOnce == NoDuplicates(chk) /\ NoDuplicates(xfer)

C10_Witness ==
    /\ Len(xfer) >= 2
    /\ filesTransferred < Len(xfer)
    /\ tPC = "select"

\* C11: a PerformTransfer that returns false (the File is still missing at
\* the destination afterwards) is not counted and does not stop the transfer
\* stage, which goes back to its select; and in a run that is never
\* cancelled every File the checker forwarded is eventually attempted.
C11_FailedTransferDoesNotStopStage ==
    /\ [][(xfer' # xfer /\ tFile.Path \notin dest') =>
            /\ filesTransferred' = filesTransferred
            /\ tPC' = "select"]_vars
    /\ ([]~signalled) => <>[](xfer = fwd)

C11_Witness ==
    /\ Len(xfer) >= 2
    /\ xfer[1].Path \notin dest
    /\ tPC = "perform"

\* The steps of a stage's exit, in the order the code runs them.
ExitRank(pc) ==
    CASE pc = "submit" -> 1
      [] pc = "close" -> 2
      [] pc = "wgdone" -> 3
      [] pc = "exited" -> 4
      [] OTHER -> 0

\* C20: a scraper or checker that exits writes its final counters once, then
\* closes its output queue once, then calls WaitGroup.Done, in that order;
\* and nothing is sent on a queue that has been closed.
C20_CloseAndSubmitOnceBeforeDone ==
    /\ [](sPC \in {"wgdone", "exited"} =>
            /\ q1Closed
            /\ FilesFound = filesFound
            /\ DirectoriesScanned = directoriesScanned)
    /\ [](cPC \in {"wgdone", "exited"} =>
            /\ q2Closed
            /\ FilesNeedTransfer = filesNeedTransfer)
    /\ [][/\ ExitRank(sPC') \in {ExitRank(sPC), ExitRank(sPC) + 1}
          /\ ExitRank(cPC') \in {ExitRank(cPC), ExitRank(cPC) + 1}
          /\ q1Closed' # q1Closed => ~q1Closed /\ sPC = "close" /\ sPC' = "wgdone"
          /\ q2Closed' # q2Closed => ~q2Closed /\ cPC = "close" /\ cPC' = "wgdone"
          /\ sPC = "close" => ~q1Closed
          /\ cPC = "close" => ~q2Closed
          /\ (sPC = "wgdone" /\ sPC' = "exited") => wg' = wg - 1
          /\ (cPC = "wgdone" /\ cPC' = "exited") => wg' = wg - 1
          /\ q1Closed => enq' = enq /\ Len(q1') <= Len(q1)
          /\ q2Closed => fwd' = fwd /\ Len(q2') <= Len(q2)]_vars

C20_Witness ==
    /\ sPC = "exited"
    /\ cPC = "wgdone"
    /\ q2Closed
    /\ Len(fwd) >= 1
    /\ ~ctxErr

\* The Files of a listing, directory after directory.
RECURSIVE Flatten(_)
Flatten(batches) ==
    IF batches = <<>>
    THEN <<>>
    ELSE Head(batches) \o Flatten(Tail(batches))

\* The end-to-end scenario: the program has run twice to the end without a
\* signal; the source holds two Files with proper paths, the destination was
\* empty before the first run, and no transfer of the first run failed.
C12_Scenario ==
    /\ runPC = "done"
    /\ ~signalled
    /\ Len(runs) = 1
    /\ runs[1].dest0 = {}
    /\ Len(Flatten(runs[1].listing)) = 2
    /\ \A i \in 1..2 : Flatten(runs[1].listing)[i] # ZeroFile
    /\ \A i \in 1..Len(runs[1].attempted) : runs[1].attempted[i].Path \in dest0

\* C12: in the end-to-end scenario the first run reports 2 files found, 2 in
\* need of transfer and 2 transferred, and the second run, against the same
\* source and the destination the first run left, reports 2, 0 and 0.
C12_EndToEndCounters ==
    C12_Scenario =>
        /\ runs[1].report.FilesFound = 2
        /\ runs[1].report.FilesNeedTransfer = 2
        /\ runs[1].report.FilesTransferred = 2
        /\ report.FilesFound = 2
        /\ report.FilesNeedTransfer = 0
        /\ report.FilesTransferred = 0

C12_Witness ==
    /\ C12_Scenario
    /\ Len(listing) = 2
    /\ Len(chk) = 2
    /\ xfer = <<>>

\* C21: the Files the checker has sent on are the Files NeedsTransfer
\* returned true for, in the same order, the one being sent excepted; the
\* checker's counter is the number of these Files, and once the checker has
\* published it, FilesNeedTransfer is that number and the number of Files put
\* on the output queue.
C21_ForwardIffNeedsTransfer ==
    /\ IsPrefix(fwd, needed)
    /\ Len(needed) <= Len(fwd) + 1
    /\ Len(needed) = Len(fwd) + 1 <=> cPC = "send"
    /\ \A i \in 1..Len(fwd) : \E j \in 1..Len(chk) : chk[j] = fwd[i]
    /\ filesNeedTransfer = Len(needed)
    /\ cPC \in {"close", "wgdone", "exited"} =>
          /\ FilesNeedTransfer = Len(needed)
          /\ FilesNeedTransfer = Len(fwd)
    /\ runPC = "done" => report.FilesNeedTransfer = Len(fwd)

C21_Witness ==
    /\ runPC = "done"
    /\ ~signalled
    /\ Len(chk) = 2
    /\ Len(fwd) = 1
    /\ report.FilesNeedTransfer = 1

\* C22: the transfer stage's counter is the number of PerformTransfer calls
\* that returned true, a call that returned false leaves it as it is, and
\* the published FilesTransferred, and the one Run reports, is that number.
C22_TransferredCountsSuccesses ==
    /\ [](filesTransferred = Len(succeeded))
    /\ [](\A i \in 1..Len(succeeded) : succeeded[i].Path \in dest)
    /\ [][(xfer' # xfer /\ succeeded' = succeeded) =>
            filesTransferred' = filesTransferred]_vars
    /\ [](tPC \in {"wgdone", "exited"} => FilesTransferred = Len(succeeded))
    /\ [](runPC = "done" => report.FilesTransferred = Len(succeeded))

C22_Witness ==
    /\ runPC = "done"
    /\ Len(xfer) = 2
    /\ Len(succeeded) = 1
    /\ succeeded[1] = xfer[2]
    /\ report.FilesTransferred = 1

\* C23: when Run reports, and whenever all three stages have terminated,
\* with or without a signal, FilesTransferred <= FilesNeedTransfer <=
\* FilesFound.
C23_CountersOrdered ==
    /\ runPC = "done" =>
          /\ report.FilesTransferred <= report.FilesNeedTransfer
          /\ report.FilesNeedTransfer <= report.FilesFound
    /\ AllExited =>
          /\ FilesTransferred <= FilesNeedTransfer
          /\ FilesNeedTransfer <= FilesFound

C23_Witness ==
    /\ runPC = "done"
    /\ signalled
    /\ report.FilesTransferred < report.FilesNeedTransfer
    /\ report.FilesNeedTransfer < report.FilesFound
    /\ report.FilesTransferred > 0

----------------------------------------------------------------------------
\* Properties of YumSource.ListAllFiles.

\* The document a response carries, for a response that carries one.
DocOf(resp) ==
    IF resp.body.head = GzipMagic
    THEN resp.body.gz[1].xml[1]
    ELSE resp.body.xml[1]

\* The response is one of the failures of downloadAndParseXML.
Failing(resp) ==
    \/ resp.failure # ""
    \/ resp.body.head = GzipMagic /\ resp.body.gz = <<>>
    \/ resp.body.head = GzipMagic /\ resp.body.gz # <<>>
          /\ resp.body.gz[1].xml = <<>>
    \/ resp.body.head # GzipMagic /\ resp.body.xml = <<>>

Lists(doc, type) == \E i \in 1..Len(doc.data) : doc.data[i].Type = type

\* repomd.xml arrived and could be parsed.
RepomdParsed == Len(fetched) >= 1 /\ ~Failing(fetched[1].resp)

C14_MissingPrimaryIsError ==
    (RepomdParsed /\ ~Lists(DocOf(fetched[1].resp), "primary"))
    => /\ yPC = "returned"
       /\ Len(fetched) = 1
       /\ yumResult.files = <<>>
       /\ yumResult.err # NoError
       /\ yumResult.err.Location = URLOf(RepomdPath)

C14_Witness ==
    /\ RepomdParsed
    /\ ~Lists(DocOf(fetched[1].resp), "primary")
    /\ Lists(DocOf(fetched[1].resp), "prestodelta")
    /\ yPC = "returned"

\* C15: when repomd.xml lists a primary but no prestodelta entry and both
\* documents parse, ListAllFiles succeeds after two fetches with
\* repodata/repomd.xml, the <data> hrefs and the package hrefs only; for a
\* repomd.xml referencing a gzipped primary.xml.gz that lists pkg-1.0.rpm
\* that is repodata/repomd.xml, repodata/primary.xml.gz, pkg-1.0.rpm.
C15_NoPrestodeltaNoDeltas ==
    (/\ RepomdParsed
     /\ Lists(DocOf(fetched[1].resp), "primary")
     /\ ~Lists(DocOf(fetched[1].resp), "prestodelta")
     /\ Len(fetched) >= 2
     /\ ~Failing(fetched[2].resp))
    => /\ yPC = "returned"
       /\ Len(fetched) = 2
       /\ yumResult.err = NoError
       /\ yumResult.files =
             <<RepomdPath>> \o HrefsOf(DocOf(fetched[1].resp).data)
                 \o DocOf(fetched[2].resp).packages
       /\ (/\ HrefsOf(DocOf(fetched[1].resp).data) = <<"repodata/primary.xml.gz">>
           /\ DocOf(fetched[2].resp).packages = <<"pkg-1.0.rpm">>)
          => yumResult.files =
                <<"repodata/repomd.xml", "repodata/primary.xml.gz", "pkg-1.0.rpm">>

C15_Witness ==
    /\ yPC = "returned"
    /\ Len(fetched) = 2
    /\ fetched[2].inflated
    /\ fetched[2].path = "repodata/primary.xml.gz"
    /\ yumResult.files =
          <<"repodata/repomd.xml", "repodata/primary.xml.gz", "pkg-1.0.rpm">>

\* the path ListAllFiles requests in its i-th fetch
PathFetched(i) ==
    IF i = 1
    THEN RepomdPath
    ELSE LET entries == DocOf(fetched[1].resp).data
             type == IF i = 2 THEN "primary" ELSE "prestodelta"
             last == CHOOSE k \in 1..Len(entries) :
                        /\ entries[k].Type = type
                        /\ \A j \in 1..Len(entries) :
                              entries[j].Type = type => j <= k
         IN  entries[last].Href

\* C16: when a request cannot be built, a GET fails, a body cannot be read,
\* a GZip body cannot be decompressed or a document is not well-formed XML,
\* for whichever of the up to three documents, ListAllFiles returns no file
\* list and a ListEntriesError located at the URL of that document.
C16_FailureNamesTheDocument ==
    \A i \in 1..Len(fetched) :
        Failing(fetched[i].resp)
        => /\ i = Len(fetched)
           /\ yPC = "returned"
           /\ yumResult.files = <<>>
           /\ yumResult.err # NoError
           /\ yumResult.err.Message # ""
           /\ yumResult.err.Location = URLOf(PathFetched(i))

C16_Witness ==
    /\ Len(fetched) = 3
    /\ fetched[3].resp.failure = ""
    /\ fetched[3].resp.body = GzipBody(<<>>)
    /\ fetched[2].path # fetched[3].path
    /\ yPC = "returned"

\* C17: a body is decompressed before parsing exactly when it begins with
\* the bytes 1F 8B 08; any other body is parsed as it is; and a body with
\* that prefix that cannot be decompressed is an error, not parsed as it is.
C17_GzipDetection ==
    \A i \in 1..Len(fetched) :
        LET f == fetched[i]
            body == f.resp.body
        IN  f.resp.failure = "" =>
              /\ f.inflated => body.head = GzipMagic
              /\ (body.head = GzipMagic /\ body.gz # <<>>) =>
                    /\ f.inflated
                    /\ f.e = NoError <=> body.gz[1].xml # <<>>
              /\ (body.head = GzipMagic /\ body.gz = <<>>) =>
                    /\ f.e.Message = "error while decompressing GZip archive"
                    /\ yumResult.files = <<>>
                    /\ yumResult.err = f.e
              /\ body.head # GzipMagic =>
                    /\ f.e = NoError <=> body.xml # <<>>
                    /\ f.e # NoError => f.e.Message = "error while parsing XML"

C17_Witness ==
    /\ Len(fetched) = 2
    /\ fetched[1].inflated
    /\ fetched[2].resp.failure = ""
    /\ fetched[2].resp.body.head = AlmostGzipMagic
    /\ fetched[2].e.Message = "error while parsing XML"

----------------------------------------------------------------------------
\* Properties of the bootstrap.

\* C18: ContainerCreate is called once for each distinct target container
\* of the jobs and for no other name, never twice for a name, and Run is
\* not called before each of these calls has returned.
C18_OneCreatePerContainerBeforeRun ==
    /\ \A c \in ContainerNames :
          /\ calls[c] <= 1
          /\ calls[c] = 1 => c \in TargetContainers(jobs)
          /\ completed[c] <= calls[c]
    /\ bPC = "run" =>
          \A c \in TargetContainers(jobs) : calls[c] = 1 /\ completed[c] = 1

C18_Witness ==
    /\ bPC = "run"
    /\ Len(jobs) = 2
    /\ jobs[1].TargetContainer = jobs[2].TargetContainer
    /\ calls[jobs[1].TargetContainer] = 1
    /\ failed = {}

\* C19: once the authentication, the creation of a target container or
\* the loading of a client certificate or CA file has failed, Run is
\* never called: the process ends first.
C19_FatalBootstrapNeverRuns ==
    /\ [](failed # {} => bPC # "run")
    /\ [][failed # {} => bPC' \in {bPC, "exited"}]_vars
    /\ [](bPC = "exited" => failed # {})

C19_Witness ==
    /\ bPC = "exited"
    /\ failed = {"server CA"}
    /\ \A c \in TargetContainers(jobs) : creators[c] = "done"

----------------------------------------------------------------------------
\* Further properties of YumSource.ListAllFiles.

\* C24: ListAllFiles fetches repodata/repomd.xml first, then the primary
\* index, then the prestodelta index, each at most once; the primary index
\* only after repomd.xml was fetched and parsed, the prestodelta index only
\* after the primary index was fetched and parsed; and after a fetch that
\* failed nothing more is fetched.
C24_FetchOrder ==
    /\ [](Len(fetched) <= 3)
    /\ [](Len(fetched) >= 1 => fetched[1].path = RepomdPath)
    /\ [](Len(fetched) >= 2 =>
            /\ ~Failing(fetched[1].resp)
            /\ Lists(DocOf(fetched[1].resp), "primary")
            /\ fetched[2].path = PathFetched(2))
    /\ [](Len(fetched) >= 3 =>
            /\ ~Failing(fetched[2].resp)
            /\ Lists(DocOf(fetched[1].resp), "prestodelta")
            /\ fetched[3].path = PathFetched(3))
    /\ [][/\ IsPrefix(fetched, fetched')
          /\ Len(fetched') <= Len(fetched) + 1
          /\ (fetched # <<>> /\ Failing(fetched[Len(fetched)].resp))
                => fetched' = fetched]_vars

C24_Witness ==
    /\ Len(fetched) = 3
    /\ fetched[2].path # fetched[3].path
    /\ Failing(fetched[3].resp)
    /\ fetched[3].resp.failure = "read"

\* C25: when repomd.xml has several <data> entries of one type, the href of
\* each of them is recorded as a file, but the document fetched as the
\* package index is the href of the last entry of type primary, and the one
\* fetched as the delta index the href of the last entry of type
\* prestodelta.
C25_LastEntryOfATypeWins ==
    RepomdParsed =>
        LET entries == DocOf(fetched[1].resp).data
        IN  /\ Len(allFiles) >= 1 + Len(entries)
            /\ \A i \in 1..Len(entries) : allFiles[1 + i] = entries[i].Href
            /\ (yPC = "returned" /\ yumResult.err = NoError) =>
                  \A i \in 1..Len(entries) : yumResult.files[1 + i] = entries[i].Href
            /\ \A i \in 2..Len(fetched) :
                  /\ fetched[i].path = PathFetched(i)
                  /\ fetched[i].uri = URLOf(PathFetched(i))
            /\ Len(fetched) >= 2 /\ ~Failing(fetched[2].resp) =>
                  SubSeq(allFiles, 2 + Len(entries),
                         1 + Len(entries) + Len(DocOf(fetched[2].resp).packages))
                      = DocOf(fetched[2].resp).packages

C25_Witness ==
    /\ yPC = "returned"
    /\ yumResult.err = NoError
    /\ Len(fetched) = 2
    /\ Len(DocOf(fetched[1].resp).data) = 2
    /\ DocOf(fetched[1].resp).data[1].Type = "primary"
    /\ DocOf(fetched[1].resp).data[2].Type = "primary"
    /\ DocOf(fetched[1].resp).data[1].Href # DocOf(fetched[1].resp).data[2].Href
    /\ fetched[2].path = DocOf(fetched[1].resp).data[2].Href
    /\ Len(yumResult.files) = 4

----------------------------------------------------------------------------
\* Properties of postlite.connectToPostgres.

PgFinished == pgPC \in {"returned", "panicked"}

\* the calls made over the connection without database name
CreateStep == {i \in 1..Len(pgOps) : pgOps[i].conn = "urlWithoutDB"}

Creates == {i \in CreateStep : pgOps[i].op = "exec"}

CreateStepFailed == \E i \in CreateStep : pgOps[i].err # ""

\* the original URL was opened a second time
Reopens == {i \in 2..Len(pgOps) : pgOps[i].op = "open" /\ pgOps[i].conn = "url"}

\* C26: after a first attempt (open and SELECT 1) that succeeded nothing is
\* done over a connection without database name.  After one that failed
\* with 'database "X" does not exist', at most one statement, CREATE
\* DATABASE X, is issued over such a connection, and the original URL is
\* opened again only after that statement was issued and the connection
\* closed, which is what happens when the create step does not fail.  After
\* any other error, or when the create step failed, connectToPostgres
\* returns that error and does not open the original URL again.
C26_CreateDatabaseOnlyWhenMissing ==
    /\ pgFirst = "ok" => CreateStep = {}
    /\ \A n \in DbNames :
          pgFirst = DbNotExistMsg(n) =>
            /\ Cardinality(Creates) <= 1
            /\ \A i \in Creates : pgOps[i].arg = "CREATE DATABASE " \o n
            /\ \A k \in Reopens :
                  \E i \in Creates, j \in CreateStep :
                     /\ i < j
                     /\ j < k
                     /\ pgOps[j].op = "close"
                     /\ \A m \in CreateStep : m <= j
            /\ (PgFinished /\ ~CreateStepFailed) =>
                  Cardinality(Creates) = 1 /\ Cardinality(Reopens) = 1
    /\ (pgFirst \notin {"ok", "pending"} \cup {DbNotExistMsg(n) : n \in DbNames}) =>
          /\ CreateStep = {}
          /\ Reopens = {}
          /\ PgFinished => /\ pgPC = "returned"
                           /\ pgResult = [db |-> "nil", err |-> pgFirst]
    /\ (PgFinished /\ CreateStepFailed) =>
          /\ pgPC = "returned"
          /\ pgResult.db = "nil"
          /\ \E i \in CreateStep : pgOps[i].err # "" /\ pgResult.err = pgOps[i].err
          /\ Reopens = {}

====
